---- MODULE Spec2Model ----
(***************************************************************************)
(* Jar tracking system (jar_tracking_website.py): the serial ingest loop   *)
(* read_serial, the alert / event state it feeds, and the HTTP handlers    *)
(* that read or change the same global dictionaries and lists, with the    *)
(* generator of the /events stream; and read_serial of the earlier         *)
(* variant jar_tracking_old.py, fed the lines the live branch reads.       *)
(*                                                                         *)
(* Text is a sequence of one-character strings, so that strip, split,      *)
(* int() and float() are computed on the characters of a line.  A float    *)
(* is an integer number of hundredths (12.25 is 1225); the input lines     *)
(* carry at most two fraction digits, all exactly representable.           *)
(* A timestamp is the number of readings accepted so far (a logical        *)
(* clock standing for datetime.now()).                                     *)
(***************************************************************************)
EXTENDS Integers, Sequences, FiniteSets, TLC

\* Python's None and a present value, for the optional fields and locals.
None == {}

Some(v) == {v}

The(o) == CHOOSE v \in o : TRUE

-----------------------------------------------------------------------------
(* Bounds of the model *)

\* accepted live readings per run of Spec
MaxReadings == 5
\* ticks of the mock generator
MaxTicks == 41
\* accepted live readings per run of SpecParse
MaxParsed == 2
\* events in the log at the start of SpecLog
MaxLog == 102
\* entries of misplaced_jars
MaxMisplaced == 2
\* accepted live readings per run of SpecStream
MaxStreamed == 3
\* readings either variant accepts per run of SpecOld
MaxOld == 3
\* accepted live readings per run of SpecAll
MaxAll == 2

-----------------------------------------------------------------------------
(* Text: str.strip, str.startswith, str.split, int(), float(), round() *)

IsSpace(c) == c \in {" ", "\t", "\r", "\n"}

RECURSIVE LStrip(_)
LStrip(s) == IF s = <<>> \/ ~IsSpace(Head(s)) THEN s ELSE LStrip(Tail(s))

RECURSIVE RStrip(_)
RStrip(s) ==
    IF s = <<>> \/ ~IsSpace(s[Len(s)]) THEN s
    ELSE RStrip(SubSeq(s, 1, Len(s) - 1))

Strip(s) == RStrip(LStrip(s))

StartsWith(s, p) == Len(s) >= Len(p) /\ SubSeq(s, 1, Len(p)) = p

RECURSIVE Split(_, _)
Split(s, sep) ==
    IF \A i \in 1..Len(s) : s[i] # sep THEN <<s>>
    ELSE LET i == CHOOSE k \in 1..Len(s) :
                     s[k] = sep /\ \A j \in 1..(k - 1) : s[j] # sep
         IN  <<SubSeq(s, 1, i - 1)>> \o Split(SubSeq(s, i + 1, Len(s)), sep)

Digits == <<"0", "1", "2", "3", "4", "5", "6", "7", "8", "9">>

IsDigit(c) == \E d \in 1..10 : Digits[d] = c

DigitVal(c) == (CHOOSE d \in 1..10 : Digits[d] = c) - 1

AllDigits(s) == \A i \in 1..Len(s) : IsDigit(s[i])

RECURSIVE NatVal(_)
NatVal(s) ==
    IF s = <<>> THEN 0
    ELSE 10 * NatVal(SubSeq(s, 1, Len(s) - 1)) + DigitVal(s[Len(s)])

HasSign(s) == s # <<>> /\ Head(s) \in {"+", "-"}

Unsigned(s) == IF HasSign(s) THEN Tail(s) ELSE s

SignOf(s) == IF s # <<>> /\ Head(s) = "-" THEN -1 ELSE 1

\* int(text): surrounding blanks, an optional sign, one or more digits;
\* anything else raises ValueError (ok = FALSE).
ParseInt(text) ==
    LET t == Strip(text)
        u == Unsigned(t)
    IN  IF u # <<>> /\ AllDigits(u)
        THEN [ok |-> TRUE, val |-> SignOf(t) * NatVal(u)]
        ELSE [ok |-> FALSE, val |-> 0]

\* The fraction digits read as hundredths.
FracVal(f) ==
    IF Len(f) = 0 THEN 0
    ELSE IF Len(f) = 1 THEN 10 * NatVal(f)
    ELSE NatVal(SubSeq(f, 1, 2))

\* float(text), in hundredths: surrounding blanks, an optional sign, digits
\* with at most one point and a digit on at least one side of it; anything
\* else raises ValueError.  (Exponents, inf and nan are not among the inputs.)
ParseFloat(text) ==
    LET t == Strip(text)
        u == Unsigned(t)
        p == Split(u, ".")
        ip == p[1]
        fp == IF Len(p) = 2 THEN p[2] ELSE <<>>
    IN  IF /\ Len(p) <= 2
           /\ AllDigits(ip) /\ AllDigits(fp)
           /\ Len(ip) + Len(fp) > 0
        THEN [ok |-> TRUE, val |-> SignOf(t) * (100 * NatVal(ip) + FracVal(fp))]
        ELSE [ok |-> FALSE, val |-> 0]

\* round(x, 1) of a value in hundredths: to the nearest tenth, a tie to the
\* even tenth (the inputs are exact binary fractions).
Round1(h) ==
    LET q == h \div 10
        r == h % 10
    IN  IF r < 5 THEN 10 * q
        ELSE IF r > 5 THEN 10 * (q + 1)
        ELSE IF q % 2 = 0 THEN 10 * q ELSE 10 * (q + 1)

-----------------------------------------------------------------------------
(* Program constants *)

\* len(parts) < 4
MinFields == 4
\* 30.0 and 40.0, in hundredths
DefaultLower == 3000
DefaultUpper == 4000
\* mock_counter % 20
MockPeriod == 20
\* event_log[-50:] and event_log[-100:]
LogCap == 50
PageCap == 100

HeaderPrefix == <<"D", "i", "s", "t", "1">>

\* random.uniform(1, 8) and random.uniform(5, 20): the two ends of each range
UniformBelow == {100, 800}
UniformAbove == {500, 2000}

row_jars ==
    [r \in {1, 2} |->
        IF r = 1 THEN <<"H004040", "H004041">>
        ELSE <<"R0244", "R0245", "R0246", "R0247", "R47376", "R47346", "R47347">>]

-----------------------------------------------------------------------------
(* State *)

VARIABLES
    mock,            \* MOCK_MODE or arduino is None (fixed at start-up)
    latest_data,     \* the Reading shown to every consumer
    event_log,       \* list of events
    alerts,          \* row -> bool
    misplaced_jars,  \* list of misplaced entries
    jar_status,      \* jar id -> record
    pc,              \* read_serial: the statement it is at
    line,            \* read_serial: local line
    reading,         \* read_serial: locals dist1, state1, dist2, state2, thresholds
    prev_state1,     \* read_serial: local
    prev_state2,     \* read_serial: local
    mock_counter,    \* read_serial: local
    mock_state1,     \* read_serial: local
    mock_state2,     \* read_serial: local
    resp,            \* the request and response of the latest HTTP call
    hist,            \* history: the states <<state1, state2>> of the accepted readings
    rise,            \* history: row -> a 0->1 step was accepted since the last clear of the row
    inflight,        \* history: row -> the last clear of the row ran while the loop
                     \* had accepted a 0->1 step and not yet set the alert for it
    stream_pc,       \* events.stream: the statement it is at
    last_data,       \* events.stream: local
    sent,            \* history: the snapshots events.stream has yielded
    old_latest_data, \* jar_tracking_old.py: latest_data
    old_event_log,   \* jar_tracking_old.py: event_log
    old_prev_state1, \* jar_tracking_old.py: read_serial's local prev_state1
    old_prev_state2, \* jar_tracking_old.py: read_serial's local prev_state2
    old_hist,        \* history: the states of the readings jar_tracking_old.py accepted
    skipped          \* history: whether a line was discarded or a read failed since the
                     \* last accepted reading (open), and between that reading and
                     \* the one before it (closed)

vars == <<mock, latest_data, event_log, alerts, misplaced_jars, jar_status,
          pc, line, reading, prev_state1, prev_state2,
          mock_counter, mock_state1, mock_state2, resp,
          hist, rise, inflight,
          stream_pc, last_data, sent,
          old_latest_data, old_event_log, old_prev_state1, old_prev_state2, old_hist,
          skipped>>

shared == <<latest_data, event_log, alerts, misplaced_jars, jar_status>>

locals == <<line, reading, prev_state1, prev_state2,
            mock_counter, mock_state1, mock_state2>>

history == <<hist, rise, inflight, skipped>>

streamv == <<stream_pc, last_data, sent>>

oldv == <<old_latest_data, old_event_log, old_prev_state1, old_prev_state2, old_hist>>

Rows == {1, 2}

NoReading ==
    [dist1 |-> None, state1 |-> None, dist2 |-> None, state2 |-> None,
     lower |-> None, upper |-> None]

NoResponse == [op |-> "none"]

\* last_data = {}
EmptyDict == <<>>

\* events.stream before its first test, and jar_tracking_old.py at start-up
InitOther ==
    /\ stream_pc = "test"
    /\ last_data = EmptyDict
    /\ sent = <<>>
    /\ old_latest_data = [dist1 |-> None, state1 |-> None, dist2 |-> None, state2 |-> None]
    /\ old_event_log = <<>>
    /\ old_prev_state1 = None
    /\ old_prev_state2 = None
    /\ old_hist = <<>>
    /\ skipped = [open |-> FALSE, closed |-> FALSE]

Init ==
    /\ mock \in BOOLEAN
    /\ latest_data = [dist1 |-> None, state1 |-> None, dist2 |-> None,
                      state2 |-> None,
                      lower |-> Some(DefaultLower), upper |-> Some(DefaultUpper)]
    /\ event_log = <<>>
    /\ alerts = [r \in Rows |-> FALSE]
    /\ misplaced_jars = <<>>
    /\ jar_status = <<>>
    /\ pc = "read"
    /\ line = <<>>
    /\ reading = NoReading
    /\ prev_state1 = None
    /\ prev_state2 = None
    /\ mock_counter = 0
    /\ mock_state1 = 0
    /\ mock_state2 = 0
    /\ resp = NoResponse
    /\ hist = <<>>
    /\ rise = [r \in Rows |-> FALSE]
    /\ inflight = [r \in Rows |-> FALSE]
    /\ InitOther

\* datetime.now(): the logical clock
Now == Len(hist)

-----------------------------------------------------------------------------
(* read_serial: one line of the live source *)

\* (a bug: the raw state is stored)
NormStateRaw(raw) == raw

\* state1 = 1 if state1_raw > 0 else 0
NormState(raw) == IF raw > 0 THEN 1 ELSE 0

\* (a bug: a threshold field that does not parse falls back to the default)
ThresholdLenient(parts, i, default) ==
    IF Len(parts) > i - 1 /\ ParseFloat(parts[i]).ok THEN ParseFloat(parts[i])
    ELSE [ok |-> TRUE, val |-> default]

\* (a bug: an absent threshold keeps the value of the reading before)
ThresholdSticky(parts, i, default) ==
    IF Len(parts) > i - 1 THEN ParseFloat(parts[i])
    ELSE [ok |-> TRUE,
          val |-> The(IF i = 5 THEN latest_data.lower ELSE latest_data.upper)]

\* float(parts[4]) if len(parts) > 4 else 30.0 (and parts[5], 40.0)
ThresholdField(parts, i, default) ==
    IF Len(parts) > i - 1 THEN ParseFloat(parts[i])
    ELSE [ok |-> TRUE, val |-> default]

\* The try block of the live branch: ok = FALSE is the ValueError caught there.
ParseReading(parts) ==
    LET d1 == ParseFloat(parts[1])
        s1 == ParseInt(parts[2])
        d2 == ParseFloat(parts[3])
        s2 == ParseInt(parts[4])
        lo == ThresholdField(parts, 5, DefaultLower)
        up == ThresholdField(parts, 6, DefaultUpper)
    IN  [ok |-> d1.ok /\ s1.ok /\ d2.ok /\ s2.ok /\ lo.ok /\ up.ok,
         dist1 |-> d1.val, state1 |-> NormState(s1.val),
         dist2 |-> d2.val, state2 |-> NormState(s2.val),
         lower |-> lo.val, upper |-> up.val]

\* What the live branch does with a stripped line: "skip" (empty or header),
\* "incomplete" (fewer than 4 fields), "error" (a field does not parse), "ok".
LineOutcome(ln) ==
    IF ln = <<>> \/ StartsWith(ln, HeaderPrefix) THEN "skip"
    ELSE IF Len(Split(ln, ",")) < MinFields THEN "incomplete"
    ELSE IF ~ParseReading(Split(ln, ",")).ok THEN "error"
    ELSE "ok"

\* The locals of an accepted line.
ReadingOf(p) ==
    [dist1 |-> Some(p.dist1), state1 |-> Some(p.state1),
     dist2 |-> Some(p.dist2), state2 |-> Some(p.state2),
     lower |-> Some(p.lower), upper |-> Some(p.upper)]

\* A 0->1 step of row r from the last accepted reading to states s.
Rising(r, s) == hist # <<>> /\ hist[Len(hist)][r] = 0 /\ s[r] = 1

Accept(s) ==
    /\ hist' = Append(hist, s)
    /\ rise' = [r \in Rows |-> rise[r] \/ Rising(r, s)]
    /\ skipped' = [open |-> FALSE, closed |-> skipped.open]
    /\ UNCHANGED inflight

\* History of a line that is dropped or a read that fails.
Skip ==
    /\ skipped' = [skipped EXCEPT !.open = TRUE]
    /\ UNCHANGED <<hist, rise, inflight>>

\* (The three read steps leave the state of jar_tracking_old.py to the
\* specification: it reads the same line, or is not running.)

\* (a bug: the exception is not caught and ends the thread)
ReadErrorFatal ==
    /\ pc = "read" /\ ~mock
    /\ pc' = "exited"
    /\ Skip
    /\ UNCHANGED <<mock, streamv, shared, locals, resp>>

\* arduino.readline() or decode() raises: the outer handler
ReadError ==
    /\ pc = "read" /\ ~mock
    /\ pc' = "backoff"
    /\ Skip
    /\ UNCHANGED <<mock, streamv, shared, locals, resp>>

\* line = arduino.readline().decode("utf-8").strip() and what the live
\* branch makes of it, for each raw line of a source.
Feed(source) ==
    {[raw |-> raw, line |-> Strip(raw), outcome |-> LineOutcome(Strip(raw)),
      parsed |-> IF LineOutcome(Strip(raw)) = "ok"
                 THEN ParseReading(Split(Strip(raw), ",")) ELSE [ok |-> FALSE]]
        : raw \in source}

\* (a bug: a dropped line makes the loop forget the states it remembered)
ReadDiscardForgets(feed) ==
    /\ pc = "read" /\ ~mock
    /\ \E f \in feed :
          /\ f.outcome # "ok"
          /\ line' = f.line
    /\ pc' = "read"
    /\ prev_state1' = None
    /\ prev_state2' = None
    /\ Skip
    /\ UNCHANGED <<mock, streamv, shared, reading,
                   mock_counter, mock_state1, mock_state2, resp>>

\* A line the live branch drops with continue.  (The locals a failed parse
\* had already bound are rebound by the next accepted line before any use.)
ReadDiscard(feed) ==
    /\ pc = "read" /\ ~mock
    /\ \E f \in feed :
          /\ f.outcome # "ok"
          /\ line' = f.line
    /\ pc' = "read"
    /\ Skip
    /\ UNCHANGED <<mock, streamv, shared, reading, prev_state1, prev_state2,
                   mock_counter, mock_state1, mock_state2, resp>>

\* A line the live branch parses.
ReadAccept(feed, max) ==
    /\ pc = "read" /\ ~mock
    /\ Len(hist) < max
    /\ \E f \in feed :
          /\ f.outcome = "ok"
          /\ line' = f.line
          /\ reading' = ReadingOf(f.parsed)
          /\ Accept(<<f.parsed.state1, f.parsed.state2>>)
    /\ pc' = "update"
    /\ UNCHANGED <<mock, streamv, shared, prev_state1, prev_state2,
                   mock_counter, mock_state1, mock_state2, resp>>

\* dist = lower - uniform(1, 8) if state == 1 else upper + uniform(5, 20)
MockDist(state, below, above) ==
    IF state = 1 THEN DefaultLower - below ELSE DefaultUpper + above

\* (a bug: the test of the tick number is missing)
MockToggleAnyTick(counter, state, hit) == IF hit THEN 1 - state ELSE state

\* mock_state = 1 - mock_state when the tick is a multiple of 20 and random() < 0.3
MockToggle(counter, state, hit) ==
    IF counter % MockPeriod = 0 /\ hit THEN 1 - state ELSE state

\* One pass of the mock branch.
MockTick ==
    /\ pc = "read" /\ mock
    /\ mock_counter < MaxTicks
    /\ mock_counter' = mock_counter + 1
    /\ \E hit1, hit2 \in BOOLEAN :
          /\ mock_state1' = MockToggle(mock_counter', mock_state1, hit1)
          /\ mock_state2' = MockToggle(mock_counter', mock_state2, hit2)
    /\ \E b1, b2 \in UniformBelow, a1, a2 \in UniformAbove :
          reading' = [dist1 |-> Some(MockDist(mock_state1', b1, a1)),
                      state1 |-> Some(mock_state1'),
                      dist2 |-> Some(MockDist(mock_state2', b2, a2)),
                      state2 |-> Some(mock_state2'),
                      lower |-> Some(DefaultLower), upper |-> Some(DefaultUpper)]
    /\ Accept(<<mock_state1', mock_state2'>>)
    /\ pc' = "update"
    /\ UNCHANGED <<mock, streamv, oldv, shared, line, prev_state1, prev_state2, resp>>

-----------------------------------------------------------------------------
(* read_serial: storing the reading and detecting the transitions *)

\* (a bug: the fields are stored in two steps, the distances first)
UpdateFieldwise ==
    /\ pc = "update"
    /\ IF latest_data.dist1 # reading.dist1 \/ latest_data.dist2 # reading.dist2
       THEN /\ latest_data' = [latest_data EXCEPT !.dist1 = reading.dist1,
                                                  !.dist2 = reading.dist2]
            /\ pc' = "update"
       ELSE /\ latest_data' = [dist1 |-> reading.dist1, state1 |-> reading.state1,
                               dist2 |-> reading.dist2, state2 |-> reading.state2,
                               lower |-> reading.lower, upper |-> reading.upper]
            /\ pc' = "check1"
    /\ UNCHANGED <<mock, streamv, oldv, event_log, alerts, misplaced_jars, jar_status,
                   locals, resp, history>>

\* latest_data.update({...}): one call of dict.update with a dictionary of
\* the six keys, which the interpreter runs without switching threads
Update ==
    /\ pc = "update"
    /\ latest_data' = [dist1 |-> reading.dist1, state1 |-> reading.state1,
                       dist2 |-> reading.dist2, state2 |-> reading.state2,
                       lower |-> reading.lower, upper |-> reading.upper]
    /\ pc' = "check1"
    /\ UNCHANGED <<mock, streamv, oldv, event_log, alerts, misplaced_jars, jar_status,
                   locals, resp, history>>

\* (a bug: any change of state, as in jar_tracking_old.py)
TransitionAnyChange(prev, state) == prev # None /\ prev # state

\* (a bug: no test for the first reading)
TransitionNoFirst(prev, state) == prev # state /\ state = Some(1)

\* prev_state is not None and prev_state != state and state == 1
Transition(prev, state) == prev # None /\ prev # state /\ state = Some(1)

\* (a bug: every event carries the distance of row 1)
EventFirstDistance(row, dist) ==
    [time |-> Now, row |-> row, event |-> "Needs checking",
     distance |-> Round1(The(reading.dist1))]

\* {"time": now, "row": row, "event": "Needs checking", "distance": round(dist, 1)}
Event(row, dist) ==
    [time |-> Now, row |-> row, event |-> "Needs checking",
     distance |-> Round1(The(dist))]

\* (a bug: the alert follows the sensor state down)
Check1Unlatch ==
    /\ pc = "check1"
    /\ IF Transition(prev_state1, reading.state1)
       THEN /\ event_log' = Append(event_log, Event(1, reading.dist1))
            /\ pc' = "alert1"
            /\ UNCHANGED alerts
       ELSE /\ pc' = "check2"
            /\ alerts' = [alerts EXCEPT ![1] = alerts[1] /\ reading.state1 # Some(0)]
            /\ UNCHANGED event_log
    /\ UNCHANGED <<mock, streamv, oldv, latest_data, misplaced_jars, jar_status,
                   locals, resp, history>>

\* if <row 1 transition>: event_log.append({...})
Check1 ==
    /\ pc = "check1"
    /\ IF Transition(prev_state1, reading.state1)
       THEN /\ event_log' = Append(event_log, Event(1, reading.dist1))
            /\ pc' = "alert1"
       ELSE /\ pc' = "check2"
            /\ UNCHANGED event_log
    /\ UNCHANGED <<mock, streamv, oldv, latest_data, alerts, misplaced_jars, jar_status,
                   locals, resp, history>>

\* alerts[1] = True
Alert1 ==
    /\ pc = "alert1"
    /\ alerts' = [alerts EXCEPT ![1] = TRUE]
    /\ pc' = "check2"
    /\ UNCHANGED <<mock, streamv, oldv, latest_data, event_log, misplaced_jars, jar_status,
                   locals, resp, history>>

\* (a bug: a state of 0 is not remembered once a state is known)
EndPassKeepHigh ==
    /\ prev_state1' = IF prev_state1 # None /\ reading.state1 = Some(0)
                       THEN prev_state1 ELSE reading.state1
    /\ prev_state2' = IF prev_state2 # None /\ reading.state2 = Some(0)
                       THEN prev_state2 ELSE reading.state2
    /\ pc' = "read"
    /\ UNCHANGED <<line, reading, mock_counter, mock_state1, mock_state2>>

\* prev_state1, prev_state2 = state1, state2; the end of the pass
EndPass ==
    /\ prev_state1' = reading.state1
    /\ prev_state2' = reading.state2
    /\ pc' = "read"
    /\ UNCHANGED <<line, reading, mock_counter, mock_state1, mock_state2>>

\* (a bug: the test raises the alert and the event is left out)
Check2AlertOnly ==
    /\ pc = "check2"
    /\ IF Transition(prev_state2, reading.state2)
       THEN /\ alerts' = [alerts EXCEPT ![2] = TRUE]
            /\ pc' = "alert2"
            /\ UNCHANGED locals
       ELSE /\ EndPass
            /\ UNCHANGED alerts
    /\ UNCHANGED <<mock, streamv, oldv, latest_data, event_log, misplaced_jars, jar_status,
                   resp, history>>

\* if <row 2 transition>: event_log.append({...}); without one the pass ends
Check2 ==
    /\ pc = "check2"
    /\ IF Transition(prev_state2, reading.state2)
       THEN /\ event_log' = Append(event_log, Event(2, reading.dist2))
            /\ pc' = "alert2"
            /\ UNCHANGED locals
       ELSE /\ EndPass
            /\ UNCHANGED event_log
    /\ UNCHANGED <<mock, streamv, oldv, latest_data, alerts, misplaced_jars, jar_status,
                   resp, history>>

\* alerts[2] = True, then the end of the pass
Alert2 ==
    /\ pc = "alert2"
    /\ alerts' = [alerts EXCEPT ![2] = TRUE]
    /\ EndPass
    /\ UNCHANGED <<mock, streamv, oldv, latest_data, event_log, misplaced_jars, jar_status,
                   resp, history>>

\* except Exception: print, time.sleep(1), and the loop goes on
Backoff ==
    /\ pc = "backoff"
    /\ pc' = "read"
    /\ UNCHANGED <<mock, streamv, oldv, shared, locals, resp, history>>

-----------------------------------------------------------------------------
(* HTTP handlers *)

\* Whether read_serial has accepted a 0->1 step of row r and has not yet
\* executed alerts[r] = True for it.
Pending(r) ==
    /\ Len(hist) >= 2
    /\ hist[Len(hist) - 1][r] = 0 /\ hist[Len(hist)][r] = 1
    /\ pc \in (IF r = 1 THEN {"update", "check1", "alert1"}
               ELSE {"update", "check1", "alert1", "check2", "alert2"})

\* (a bug: the alert of a row whose sensor state is 1 is kept)
ClearedUnlessActive(row) ==
    IF row \in Rows /\ hist # <<>> /\ hist[Len(hist)][row] = 1 THEN alerts
    ELSE [k \in DOMAIN alerts \cup {row} |-> IF k = row THEN FALSE ELSE alerts[k]]

\* alerts[row] = False
ClearedAlerts(row) ==
    [k \in DOMAIN alerts \cup {row} |-> IF k = row THEN FALSE ELSE alerts[k]]

\* POST /clear_alert/<int:row>
ClearAlert(row) ==
    /\ alerts' = ClearedAlerts(row)
    /\ resp' = [op |-> "clear_alert", row |-> row, status |-> 200, success |-> TRUE]
    /\ rise' = [r \in Rows |-> rise[r] /\ r # row]
    /\ inflight' = [r \in Rows |-> IF r = row THEN Pending(r) ELSE inflight[r]]
    /\ UNCHANGED <<mock, streamv, oldv, latest_data, event_log, misplaced_jars, jar_status,
                   pc, locals, hist, skipped>>

-----------------------------------------------------------------------------
(* The serial source *)

RECURSIVE Join(_)
Join(fields) ==
    IF Len(fields) = 1 THEN fields[1]
    ELSE fields[1] \o <<",">> \o Join(Tail(fields))

Eol == <<"\r", "\n">>

Tok0 == <<"0">>
Tok1 == <<"1">>
Tok2 == <<"2">>
Tok50 == <<"5", "0">>
TokNeg == <<"-", "3">>
TokD12 == <<"1", "2", ".", "2", "5">>
TokD45 == <<"4", "5", ".", "7", "5">>
TokD20 == <<"2", "0", ".", "5">>
TokLower == <<"2", "5">>
TokUpper == <<"3", "5", ".", "5">>
TokJunk == <<"a", "b", "c">>
TokFrac == <<"1", ".", "5">>

HeaderLine ==
    Join(<<HeaderPrefix, <<"S", "t", "a", "t", "e", "1">>,
           <<"D", "i", "s", "t", "2">>, <<"S", "t", "a", "t", "e", "2">>>>)

\* The lines of Spec: every pair of states, the timeout's empty read and a
\* short line.
SensorLines ==
    {Join(<<TokD12, s1, TokD20, s2>>) \o Eol : s1 \in {Tok0, Tok50}, s2 \in {Tok0, Tok50}}
        \cup {<<>>, Join(<<Tok1, Tok2>>) \o Eol}

SensorFeed == Feed(SensorLines)

-----------------------------------------------------------------------------
(* The ingest thread and the alert handlers *)

Ingest(feed, max) ==
    \/ ReadError /\ UNCHANGED oldv
    \/ ReadDiscard(feed) /\ UNCHANGED oldv
    \/ ReadAccept(feed, max) /\ UNCHANGED oldv
    \/ MockTick
    \/ Update
    \/ Check1
    \/ Alert1
    \/ Check2
    \/ Alert2
    \/ Backoff

Next ==
    \/ Ingest(SensorFeed, MaxReadings)
    \/ \E row \in Rows : ClearAlert(row)

Spec == Init /\ [][Next]_vars

-----------------------------------------------------------------------------
(* Events and transitions *)

\* The number of row-r events of the log.
RowEvents(r) == Cardinality({i \in 1..Len(event_log) : event_log[i].row = r})

\* The readings at which row-r events were appended.
EventTimes(r) == {event_log[i].time : i \in {j \in 1..Len(event_log) : event_log[j].row = r}}

\* The readings 2..n at which row r went from 0 to 1.
RisingAt(r, n) == {i \in 2..n : hist[i - 1][r] = 0 /\ hist[i][r] = 1}

\* The number of accepted readings whose test for row r the loop has passed.
Tested(r) ==
    IF pc \in (IF r = 1 THEN {"update", "check1"}
               ELSE {"update", "check1", "alert1", "check2"})
    THEN Len(hist) - 1 ELSE Len(hist)

\* C1: a row-r event is appended at a reading iff the previous accepted
\* reading had state 0 for r and this one has state 1: the readings with a
\* row-r event are exactly the 0->1 steps of the row's state sequence, one
\* event each, and there is none for the first reading, a 1->0 step or a
\* repeated state.
C1_EventIffRisingEdge ==
    \A r \in Rows :
        /\ EventTimes(r) = RisingAt(r, Tested(r))
        /\ RowEvents(r) = Cardinality(RisingAt(r, Tested(r)))

\* C1: row 1 went 0,0,1,1,0 and has its one event, of the third reading.
C1_Witness ==
    /\ ~mock /\ pc = "read"
    /\ [i \in 1..Len(hist) |-> hist[i][1]] = <<0, 0, 1, 1, 0>>
    /\ RowEvents(1) = 1 /\ EventTimes(1) = {3}

\* A step that is clear_alert(r).
ClearStep(r) ==
    /\ resp'.op = "clear_alert" /\ resp'.row = r
    /\ UNCHANGED <<pc, line, hist>>

\* C2 as stated: clear_alert(r) leaves alerts[r] false, and alerts[r] turns
\* true again only once a reading accepted after that clear made a 0->1 step
\* of row r, in every interleaving.
C2_Original ==
    [][\A r \in Rows :
          /\ ClearStep(r) => ~alerts'[r]
          /\ (~alerts[r] /\ alerts'[r]) => rise[r]]_vars

\* C2 amended: clear_alert(r) leaves alerts[r] false whatever the sensor
\* state, and alerts[r] turns true again only for a 0->1 step of row r that
\* the loop accepted after that clear, or that it had accepted and not yet
\* raised the alert for when the clear ran.
C2_ClearHoldsUntilRise ==
    [][\A r \in Rows :
          /\ ClearStep(r) => ~alerts'[r]
          /\ (~alerts[r] /\ alerts'[r]) => (rise[r] \/ inflight[r])]_vars

\* C2: row 1 was cleared while its sensor state is 1 and stays clear.
C2_Witness ==
    /\ resp.op = "clear_alert" /\ resp.row = 1
    /\ latest_data.state1 = Some(1) /\ prev_state1 = Some(1)
    /\ RowEvents(1) >= 1
    /\ ~alerts[1] /\ ~rise[1] /\ ~inflight[1]

\* C3 as stated: alerts[r] is true only if a 0->1 step of row r was accepted
\* since the most recent clear_alert(r), or since start-up.
C3_Original == \A r \in Rows : alerts[r] => rise[r]

\* C3 amended: alerts[r] is true only if, since the most recent
\* clear_alert(r) or start-up, a 0->1 step of row r was accepted, or that
\* clear ran while the loop had accepted such a step and not yet raised the
\* alert for it; no alert is true before the second accepted reading.
C3_AlertOnlyAfterRise ==
    \A r \in Rows :
        /\ alerts[r] => (rise[r] \/ inflight[r])
        /\ Len(hist) <= 1 => ~alerts[r]

\* C3: an alert raised after a clear by a later 0->1 step, the first
\* reading having had state 1.
C3_Witness ==
    /\ hist # <<>> /\ hist[1][1] = 1
    /\ resp.op = "clear_alert" /\ resp.row = 1
    /\ alerts[1] /\ rise[1] /\ ~inflight[1]

-----------------------------------------------------------------------------
(* The parser on well-formed and malformed lines *)

Fields4 ==
    {<<d1, s1, TokD20, s2>> :
        d1 \in {TokD12, TokD45}, s1 \in {Tok0, Tok1, Tok50, TokNeg}, s2 \in {Tok0, Tok50}}

GoodLines ==
    {Join(f \o t) \o Eol :
        f \in Fields4, t \in {<<>>, <<TokLower>>, <<TokLower, TokUpper>>}}
      \cup {Join(<<<<" ">> \o TokD12, <<" ">> \o Tok50 \o <<" ">>, TokD20, Tok0>>) \o Eol}

\* TokJunk in field k of a line of n fields
JunkAt(k, n) ==
    Join([i \in 1..n |->
            IF i = k THEN TokJunk
            ELSE IF i = 1 THEN TokD12
            ELSE IF i = 3 THEN TokD20
            ELSE IF i = 5 THEN TokLower
            ELSE IF i = 6 THEN TokUpper
            ELSE Tok0]) \o Eol

BadLines ==
    {<<>>, Eol, HeaderLine \o Eol,
     Join(<<Tok1, Tok2>>) \o Eol,
     Join(<<TokD12, Tok0, TokD20>>) \o Eol,
     Join(<<TokD12, TokFrac, TokD20, Tok0>>) \o Eol,
     Join(<<TokD12, Tok0, TokD20, Tok0, <<>>>>) \o Eol}
      \cup {JunkAt(k, 4) : k \in 1..4}
      \cup {JunkAt(5, 5), JunkAt(5, 6), JunkAt(6, 6), JunkAt(7, 7)}

ParseLines == GoodLines \cup BadLines

ParseFeed == Feed(ParseLines)

NextParse == Ingest(ParseFeed, MaxParsed)

SpecParse == Init /\ [][NextParse]_vars

Min(a, b) == IF a < b THEN a ELSE b

IsNumber(field) == ParseFloat(field).ok

\* A line with a field, among its first n, that does not parse as a number.
BadField(ln, n) ==
    \E i \in 1..Min(n, Len(Split(ln, ","))) : ~IsNumber(Split(ln, ",")[i])

\* A line that is empty, starts with the header text, has fewer than 4
\* fields, or has a field among its first n that does not parse as a number.
Malformed(ln, n) ==
    \/ ln = <<>>
    \/ StartsWith(ln, HeaderPrefix)
    \/ Len(Split(ln, ",")) < MinFields
    \/ BadField(ln, n)

\* A step of the live branch that read line' and did not store it.
Dropped ==
    /\ pc' = "read"
    /\ UNCHANGED <<latest_data, event_log, alerts, reading,
                   prev_state1, prev_state2, hist>>

\* C5 as stated: a line that is empty, starts with "Dist1", has fewer than
\* 4 fields or has any field that does not parse as a number is discarded:
\* the loop goes on to the next read with latest_data, event_log and alerts
\* as they were.
C5_Original ==
    [][(~mock /\ line' # line /\ Malformed(line', Len(line'))) => Dropped]_vars

\* C5 amended: the same, for a line one of whose first six fields (the ones
\* the loop parses) does not parse as a number.
C5_MalformedDiscarded ==
    [][(~mock /\ line' # line /\ Malformed(line', 6)) => Dropped]_vars

\* C5: the short line "1,2" was read after two readings, the second of
\* which had raised an event, and nothing moved.
C5_Witness ==
    /\ ~mock /\ pc = "read"
    /\ line = Join(<<Tok1, Tok2>>)
    /\ Len(hist) = 2 /\ event_log # <<>>
    /\ latest_data.state1 = Some(hist[2][1])

\* The state field i of the accepted line, as int() reads it.
RawState(i) == ParseInt(Split(line, ",")[i]).val

Bit(raw) == IF raw >= 1 THEN 1 ELSE 0

\* C10: once a reading is stored, latest_data's state1 and state2 are 0 or
\* 1: 1 for a raw state field above zero and 0 for one of zero or less in
\* live mode, the generator's 0 or 1 in mock mode.
C10_StateIsBit ==
    /\ latest_data.state1 \in {None, Some(0), Some(1)}
    /\ latest_data.state2 \in {None, Some(0), Some(1)}
    /\ (Len(hist) >= 2 \/ (Len(hist) = 1 /\ pc # "update"))
          => latest_data.state1 # None /\ latest_data.state2 # None
    /\ (~mock /\ pc \in {"check1", "alert1", "check2", "alert2"})
          => /\ latest_data.state1 = Some(Bit(RawState(2)))
             /\ latest_data.state2 = Some(Bit(RawState(4)))
    /\ (mock /\ pc \in {"check1", "alert1", "check2", "alert2"})
          => /\ latest_data.state1 = Some(mock_state1)
             /\ latest_data.state2 = Some(mock_state2)

\* C10: a raw state of 50 stored as 1 beside a raw state of 0 stored as 0.
C10_Witness ==
    /\ ~mock /\ pc = "check1"
    /\ RawState(2) = 50 /\ latest_data.state1 = Some(1)
    /\ RawState(4) = 0 /\ latest_data.state2 = Some(0)

-----------------------------------------------------------------------------
(* The event log as its consumers see it *)

\* (a bug: one entry too many)
PySuffixOneMore(s, k) ==
    SubSeq(s, (IF Len(s) - k - 1 > 0 THEN Len(s) - k - 1 ELSE 0) + 1, Len(s))

\* s[-k:] for k > 0: from index max(len(s) - k, 0) to the end
PySuffix(s, k) ==
    SubSeq(s, (IF Len(s) - k > 0 THEN Len(s) - k ELSE 0) + 1, Len(s))

\* list(reversed(s))
Reversed(s) == [i \in 1..Len(s) |-> s[Len(s) + 1 - i]]

\* GET /log
GetLog ==
    /\ resp' = [op |-> "get_log", status |-> 200,
                events |-> PySuffix(event_log, LogCap)]
    /\ UNCHANGED <<mock, streamv, oldv, shared, pc, locals, history>>

\* GET /event_log: the table rows, and the two counts of the header
EventLogPage ==
    LET events == IF event_log # <<>> THEN PySuffix(event_log, PageCap) ELSE <<>>
    IN  /\ resp' = [op |-> "event_log_page", status |-> 200,
                    rows |-> Reversed(events),
                    total |-> Len(event_log), showing |-> Len(events)]
        /\ UNCHANGED <<mock, streamv, oldv, shared, pc, locals, history>>

\* The states of reading j of a run in which the rows rise in turn: row 1
\* at the even readings, row 2 at the odd readings from the third on.
TurnStates(j) == <<(j + 1) % 2, j % 2>>

TurnLine(j) ==
    Join(<<TokD12, IF TurnStates(j)[1] = 1 THEN Tok50 ELSE Tok0,
           TokD20, IF TurnStates(j)[2] = 1 THEN Tok50 ELSE Tok0>>)

\* The state after n readings of that run, all passes complete: n - 1 events.
AfterTurns(n) ==
    LET p == ParseReading(Split(TurnLine(n), ","))
    IN  /\ mock = FALSE
        /\ hist = [j \in 1..n |-> TurnStates(j)]
        /\ event_log = [k \in 1..(n - 1) |->
                          [time |-> k + 1, row |-> IF (k + 1) % 2 = 0 THEN 1 ELSE 2,
                           event |-> "Needs checking",
                           distance |-> Round1(IF (k + 1) % 2 = 0 THEN p.dist1 ELSE p.dist2)]]
        /\ latest_data = ReadingOf(p)
        /\ reading = ReadingOf(p)
        /\ line = TurnLine(n)
        /\ prev_state1 = Some(p.state1)
        /\ prev_state2 = Some(p.state2)
        /\ alerts = [r \in Rows |-> n > r]
        /\ rise = [r \in Rows |-> n > r]
        /\ inflight = [r \in Rows |-> FALSE]
        /\ misplaced_jars = <<>>
        /\ jar_status = <<>>
        /\ pc = "read"
        /\ mock_counter = 0 /\ mock_state1 = 0 /\ mock_state2 = 0
        /\ resp = NoResponse
        /\ InitOther

InitLog == \E n \in 1..(MaxLog + 1) : AfterTurns(n)

NextLog == GetLog \/ EventLogPage

SpecLog == InitLog /\ [][NextLog]_vars

\* The last min(cap, len) events of the log, oldest first.
LastEvents(cap) ==
    [i \in 1..Min(cap, Len(event_log)) |->
        event_log[Len(event_log) - Min(cap, Len(event_log)) + i]]

\* Earlier events stand before later ones.
OldestFirst(s) == \A i, j \in 1..Len(s) : i < j => s[i].time < s[j].time

NewestFirst(s) == \A i, j \in 1..Len(s) : i < j => s[i].time > s[j].time

\* C4 as stated: /log returns at most 50 events and the page renders at
\* most 100, each list being the last min(cap, len) events of the log with
\* earlier events before later ones.
C4_Original ==
    /\ resp.op = "get_log" =>
          /\ Len(resp.events) <= LogCap
          /\ resp.events = LastEvents(LogCap)
          /\ OldestFirst(resp.events)
    /\ resp.op = "event_log_page" =>
          /\ Len(resp.rows) <= PageCap
          /\ resp.rows = LastEvents(PageCap)
          /\ OldestFirst(resp.rows)

\* C4 amended: /log returns the last min(50, len) events, oldest first; the
\* page renders the last min(100, len) events, newest first.
C4_LogCapped ==
    /\ resp.op = "get_log" =>
          /\ Len(resp.events) <= LogCap
          /\ resp.events = LastEvents(LogCap)
          /\ OldestFirst(resp.events)
    /\ resp.op = "event_log_page" =>
          /\ Len(resp.rows) <= PageCap
          /\ Len(resp.rows) = Min(PageCap, Len(event_log))
          /\ \A i \in 1..Len(resp.rows) :
                resp.rows[i] = LastEvents(PageCap)[Len(resp.rows) + 1 - i]
          /\ NewestFirst(resp.rows)

\* C4: the page of a log longer than its cap.
C4_Witness ==
    /\ resp.op = "event_log_page"
    /\ Len(event_log) > PageCap
    /\ Len(resp.rows) = PageCap
    /\ resp.rows[1] = event_log[Len(event_log)]

-----------------------------------------------------------------------------
(* The jar handlers *)

\* (a bug: the jar is looked up in every row, not in the row given)
InAnyRow(jar, r) ==
    \E q \in DOMAIN row_jars : \E i \in 1..Len(row_jars[q]) : row_jars[q][i] = jar

\* jar in row_jars[r]
InRow(jar, r) == \E i \in 1..Len(row_jars[r]) : row_jars[r][i] = jar

\* (a bug: the first row, whichever row lists the jar)
CorrectRowFirst(jar) ==
    IF \E r \in DOMAIN row_jars : InRow(jar, r) THEN Some(1) ELSE None

\* for row, jars in row_jars.items(): if jar in jars: correct_row = row; break
CorrectRow(jar) ==
    IF \E r \in DOMAIN row_jars : InRow(jar, r)
    THEN Some(CHOOSE r \in DOMAIN row_jars :
                 InRow(jar, r) /\ \A q \in DOMAIN row_jars : InRow(jar, q) => r <= q)
    ELSE None

\* not x, for an optional string and an optional integer of the JSON body
FalsyStr(o) == o = None \/ o = Some("")

FalsyInt(o) == o = None \/ o = Some(0)

\* (a bug: a jar reported again replaces its earlier entry)
MarkWrongJarOnce(jar, found_in) ==
    /\ IF FalsyStr(jar) \/ FalsyInt(found_in)
       THEN /\ resp' = [op |-> "mark_wrong_jar", jar |-> jar, found_in |-> found_in,
                        status |-> 400, success |-> FALSE, error |-> "Missing data"]
            /\ UNCHANGED misplaced_jars
       ELSE /\ Len(misplaced_jars) < MaxMisplaced
            /\ misplaced_jars' =
                  Append(SelectSeq(misplaced_jars, LAMBDA e : e.jar # The(jar)),
                         [jar |-> The(jar), found_in |-> The(found_in),
                          correct_row |-> CorrectRow(The(jar)), time |-> Now])
            /\ resp' = [op |-> "mark_wrong_jar", jar |-> jar, found_in |-> found_in,
                        status |-> 200, success |-> TRUE,
                        message |-> IF CorrectRow(The(jar)) # None
                                    THEN [text |-> "Jar belongs in Row", jar |-> The(jar),
                                          row |-> The(CorrectRow(The(jar)))]
                                    ELSE [text |-> "Jar not found in database."],
                        correct_row |-> CorrectRow(The(jar))]
    /\ UNCHANGED <<mock, streamv, oldv, latest_data, event_log, alerts, jar_status, pc, locals, history>>

\* POST /mark_wrong_jar with body {"jar": jar, "found_in": found_in}
MarkWrongJar(jar, found_in) ==
    /\ IF FalsyStr(jar) \/ FalsyInt(found_in)
       THEN /\ resp' = [op |-> "mark_wrong_jar", jar |-> jar, found_in |-> found_in,
                        status |-> 400, success |-> FALSE, error |-> "Missing data"]
            /\ UNCHANGED misplaced_jars
       ELSE /\ Len(misplaced_jars) < MaxMisplaced
            /\ misplaced_jars' =
                  Append(misplaced_jars,
                         [jar |-> The(jar), found_in |-> The(found_in),
                          correct_row |-> CorrectRow(The(jar)), time |-> Now])
            /\ resp' = [op |-> "mark_wrong_jar", jar |-> jar, found_in |-> found_in,
                        status |-> 200, success |-> TRUE,
                        message |-> IF CorrectRow(The(jar)) # None
                                    THEN [text |-> "Jar belongs in Row", jar |-> The(jar),
                                          row |-> The(CorrectRow(The(jar)))]
                                    ELSE [text |-> "Jar not found in database."],
                        correct_row |-> CorrectRow(The(jar))]
    /\ UNCHANGED <<mock, streamv, oldv, latest_data, event_log, alerts, jar_status, pc, locals, history>>

\* (a bug: the dictionary is rebuilt with the one record)
WithJarOnly(jar_id, rec) == [k \in {jar_id} |-> rec]

\* jar_status[jar_id] = {...}
WithJar(jar_id, rec) ==
    [k \in DOMAIN jar_status \cup {jar_id} |-> IF k = jar_id THEN rec ELSE jar_status[k]]

\* (a bug: the record is stored before the row of the jar is verified)
UpdateJarStatusEager(jar_id, status, row) ==
    LET req == [jar_id |-> jar_id, status |-> status, row |-> row]
        fail(text) == [op |-> "update_jar_status", req |-> req, status |-> 400,
                       success |-> FALSE, error |-> text]
    IN  /\ IF FalsyStr(jar_id) \/ FalsyStr(status) \/ FalsyInt(row)
           THEN /\ resp' = fail("Missing required data")
                /\ UNCHANGED jar_status
           ELSE IF The(status) \notin {"present", "missing"}
           THEN /\ resp' = fail("Invalid status")
                /\ UNCHANGED jar_status
           ELSE /\ jar_status' = WithJar(The(jar_id),
                                         [status |-> The(status), row |-> The(row),
                                          time |-> Some(Now)])
                /\ resp' = IF The(row) \notin DOMAIN row_jars \/ ~InRow(The(jar_id), The(row))
                           THEN fail("Jar not found in specified row")
                           ELSE [op |-> "update_jar_status", req |-> req, status |-> 200,
                                 success |-> TRUE]
        /\ UNCHANGED <<mock, streamv, oldv, latest_data, event_log, alerts, misplaced_jars,
                       pc, locals, history>>

\* POST /update_jar_status with body {"jar_id": ..., "status": ..., "row": ...}
UpdateJarStatus(jar_id, status, row) ==
    LET req == [jar_id |-> jar_id, status |-> status, row |-> row]
        fail(text) == [op |-> "update_jar_status", req |-> req, status |-> 400,
                       success |-> FALSE, error |-> text]
    IN  /\ IF FalsyStr(jar_id) \/ FalsyStr(status) \/ FalsyInt(row)
           THEN /\ resp' = fail("Missing required data")
                /\ UNCHANGED jar_status
           ELSE IF The(status) \notin {"present", "missing"}
           THEN /\ resp' = fail("Invalid status")
                /\ UNCHANGED jar_status
           ELSE IF The(row) \notin DOMAIN row_jars \/ ~InRow(The(jar_id), The(row))
           THEN /\ resp' = fail("Jar not found in specified row")
                /\ UNCHANGED jar_status
           ELSE /\ jar_status' = WithJar(The(jar_id),
                                         [status |-> The(status), row |-> The(row),
                                          time |-> Some(Now)])
                /\ resp' = [op |-> "update_jar_status", req |-> req, status |-> 200,
                            success |-> TRUE]
        /\ UNCHANGED <<mock, streamv, oldv, latest_data, event_log, alerts, misplaced_jars,
                       pc, locals, history>>

\* The set of the jars of a catalog row.
JarsOf(row) == {row_jars[row][i] : i \in 1..Len(row_jars[row])}

\* GET /get_jar_status/<int:row>
GetJarStatus(row) ==
    /\ IF row \notin DOMAIN row_jars
       THEN resp' = [op |-> "get_jar_status", row |-> row, status |-> 404,
                     success |-> FALSE, error |-> "Invalid row"]
       ELSE resp' = [op |-> "get_jar_status", row |-> row, status |-> 200,
                     success |-> TRUE,
                     jars |-> [j \in JarsOf(row) |->
                                 IF j \in DOMAIN jar_status THEN jar_status[j]
                                 ELSE [status |-> "unchecked", row |-> row,
                                       time |-> None]]]
    /\ UNCHANGED <<mock, streamv, oldv, shared, pc, locals, history>>

\* The request bodies and URL rows of SpecApi.
JarIds == {None, Some("H004040"), Some("R0244"), Some("X999")}

FoundIns == {None, Some(0), Some(1), Some(7)}

Statuses == {None, Some("present"), Some("missing"), Some("broken")}

BodyRows == {None, Some(1), Some(2), Some(3)}

UrlRows == {1, 2, 3}

NextApi ==
    \/ \E row \in UrlRows : ClearAlert(row)
    \/ \E jar \in JarIds, found_in \in FoundIns : MarkWrongJar(jar, found_in)
    \/ \E jar_id \in JarIds, status \in Statuses, row \in BodyRows :
          UpdateJarStatus(jar_id, status, row)
    \/ \E row \in UrlRows : GetJarStatus(row)

\* Start-up with the serial device connected.
InitLive == Init /\ ~mock

\* The handlers alone, no line read yet.
SpecApi == InitLive /\ [][NextApi]_vars

\* A mark_wrong_jar call that carried a jar id and a found_in row.
Marked(r) == r.op = "mark_wrong_jar" /\ ~FalsyStr(r.jar) /\ ~FalsyInt(r.found_in)

\* C6: mark_wrong_jar with a jar id and a found_in row answers with the
\* catalog row that lists the id, named in the message, or with no row and
\* the not-found message when no row lists it, and appends exactly one
\* entry with that jar, found_in and correct_row to misplaced_jars.
C6_MarkWrongJar ==
    [][Marked(resp') =>
          LET jar == The(resp'.jar)
              listed == {r \in Rows : InRow(jar, r)}
          IN  /\ resp'.success /\ resp'.status = 200
              /\ \A r \in listed :
                    /\ resp'.correct_row = Some(r)
                    /\ resp'.message = [text |-> "Jar belongs in Row", jar |-> jar, row |-> r]
              /\ listed = {} =>
                    /\ resp'.correct_row = None
                    /\ resp'.message.text = "Jar not found in database."
              /\ Len(misplaced_jars') = Len(misplaced_jars) + 1
              /\ SubSeq(misplaced_jars', 1, Len(misplaced_jars)) = misplaced_jars
              /\ LET e == misplaced_jars'[Len(misplaced_jars')]
                 IN  /\ e.jar = jar
                     /\ e.found_in = The(resp'.found_in)
                     /\ e.correct_row = resp'.correct_row]_vars

\* C6: a row-2 jar reported in row 1 after an unknown jar was reported.
C6_Witness ==
    /\ Marked(resp) /\ resp.jar = Some("R0244") /\ resp.found_in = Some(1)
    /\ resp.correct_row = Some(2)
    /\ Len(misplaced_jars) = 2
    /\ misplaced_jars[1].correct_row = None
    /\ misplaced_jars[2] = [jar |-> "R0244", found_in |-> 1,
                            correct_row |-> Some(2), time |-> Now]

\* A call whose input is invalid: a missing field, a status that is neither
\* "present" nor "missing", or a row that is not 1 or 2.
InvalidCall(r) ==
    \/ r.op = "clear_alert" /\ r.row \notin Rows
    \/ r.op = "get_jar_status" /\ r.row \notin Rows
    \/ r.op = "mark_wrong_jar" /\ (r.jar = None \/ r.found_in = None)
    \/ r.op = "update_jar_status" /\
          \/ r.req.jar_id = None \/ r.req.status = None \/ r.req.row = None
          \/ r.req.status \notin {Some("present"), Some("missing")}
          \/ r.req.row \notin {Some(1), Some(2)}

\* C7: every call with invalid input is answered with a failure: success
\* false and an error status.
C7_InvalidInputFails ==
    InvalidCall(resp) => ~resp.success /\ resp.status >= 400

\* The same without clear_alert: the three jar handlers do answer invalid
\* input with a failure.
C7_JarHandlersFail ==
    (InvalidCall(resp) /\ resp.op # "clear_alert")
        => ~resp.success /\ resp.status >= 400

\* C9: every row held in shared state is 1 or 2: the rows of the events,
\* the keys of alerts, the rows of the jar records and the found_in rows of
\* the misplaced entries.
C9_RowsAreOneOrTwo ==
    /\ \A i \in 1..Len(event_log) : event_log[i].row \in Rows
    /\ DOMAIN alerts \subseteq Rows
    /\ \A j \in DOMAIN jar_status : jar_status[j].row \in Rows
    /\ \A i \in 1..Len(misplaced_jars) : misplaced_jars[i].found_in \in Rows

\* The rows the ingest loop and update_jar_status store are 1 or 2.
C9_EventAndJarRows ==
    /\ \A i \in 1..Len(event_log) : event_log[i].row \in Rows
    /\ \A j \in DOMAIN jar_status : jar_status[j].row \in Rows

-----------------------------------------------------------------------------
(* The live loop under fair scheduling *)

NextLive ==
    \/ ReadError /\ UNCHANGED oldv
    \/ ReadDiscard(SensorFeed) /\ UNCHANGED oldv
    \/ ReadAccept(SensorFeed, MaxReadings) /\ UNCHANGED oldv
    \/ Update
    \/ Check1
    \/ Alert1
    \/ Check2
    \/ Alert2
    \/ Backoff

\* The thread keeps running (weak fairness of the statements after the
\* read), and the device keeps sending well-formed lines (strong fairness
\* of an accepted read, which a failed or dropped read does not disable).
SpecLive ==
    /\ InitLive
    /\ [][NextLive]_vars
    /\ WF_vars(Update \/ Check1 \/ Alert1 \/ Check2 \/ Alert2 \/ Backoff)
    /\ SF_vars(ReadAccept(SensorFeed, MaxReadings) /\ UNCHANGED oldv)

LoopStatements == {"read", "update", "check1", "alert1", "check2", "alert2", "backoff"}

-----------------------------------------------------------------------------
(* Latched alerts *)

\* A step of read_serial: a statement executed, or a line read.
IngestStep == pc' # pc \/ line' # line \/ hist' # hist \/ skipped' # skipped

\* C11: alerts are latched: a step of the ingest loop (a reading accepted
\* with any state, a line discarded, an exception, any statement of a pass)
\* never takes alerts[r] from true to false, and a step that does is
\* clear_alert(r).
C11_AlertsLatched ==
    [][\A r \in Rows :
          /\ IngestStep => (alerts[r] => alerts'[r])
          /\ (alerts[r] /\ ~alerts'[r]) => ClearStep(r)]_vars

\* C11: the alert of row 1 still set after the row went back to 0, a short
\* line was discarded and a read failed.
C11_Witness ==
    /\ ~mock /\ pc = "backoff"
    /\ line = Join(<<Tok1, Tok2>>)
    /\ Len(hist) >= 3 /\ hist[Len(hist)][1] = 0 /\ prev_state1 = Some(0)
    /\ latest_data.state1 = Some(0)
    /\ alerts[1]

-----------------------------------------------------------------------------
(* GET /events: the generator stream() *)

\* if latest_data != last_data
StreamTest ==
    /\ stream_pc = "test"
    /\ stream_pc' = IF latest_data # last_data THEN "yield" ELSE "sleep"
    /\ UNCHANGED <<mock, shared, pc, locals, resp, history, last_data, sent, oldv>>

\* yield f"data: {json.dumps(latest_data)}\n\n": the dictionary as it is when
\* the frame is built (json.dumps writes every key with its value; the
\* client's JSON.parse gives them back)
StreamYield ==
    /\ stream_pc = "yield"
    /\ sent' = Append(sent, latest_data)
    /\ stream_pc' = "copy"
    /\ UNCHANGED <<mock, shared, pc, locals, resp, history, last_data, oldv>>

\* last_data = latest_data.copy(), when the server asks for the next frame
StreamCopy ==
    /\ stream_pc = "copy"
    /\ last_data' = latest_data
    /\ stream_pc' = "sleep"
    /\ UNCHANGED <<mock, shared, pc, locals, resp, history, sent, oldv>>

\* time.sleep(0.2)
StreamSleep ==
    /\ stream_pc = "sleep"
    /\ stream_pc' = "test"
    /\ UNCHANGED <<mock, shared, pc, locals, resp, history, last_data, sent, oldv>>

Stream == StreamTest \/ StreamYield \/ StreamCopy \/ StreamSleep

\* Three readings that differ in every pair of (dist1, state1), (dist2,
\* state2) and thresholds, and a short line.
StreamLines ==
    {Join(<<TokD12, Tok0, TokD20, Tok0>>) \o Eol,
     Join(<<TokD45, Tok50, TokD20, Tok0, TokLower, TokUpper>>) \o Eol,
     Join(<<TokD12, Tok0, TokD45, Tok50, TokLower>>) \o Eol,
     Join(<<Tok1, Tok2>>) \o Eol}

StreamFeed == Feed(StreamLines)

NextStream ==
    \/ ReadError /\ UNCHANGED oldv
    \/ ReadDiscard(StreamFeed) /\ UNCHANGED oldv
    \/ ReadAccept(StreamFeed, MaxStreamed) /\ UNCHANGED oldv
    \/ Update
    \/ Check1
    \/ Alert1
    \/ Check2
    \/ Alert2
    \/ Backoff
    \/ Stream

\* One client of /events beside the live loop; the generator keeps being
\* scheduled (the server asks for frame after frame).
SpecStream == InitLive /\ [][NextStream]_vars /\ WF_vars(Stream)

\* The values latest_data takes: the start-up value and the accepted lines.
StartData ==
    [dist1 |-> None, state1 |-> None, dist2 |-> None, state2 |-> None,
     lower |-> Some(DefaultLower), upper |-> Some(DefaultUpper)]

WholeReadings ==
    {StartData} \cup {ReadingOf(f.parsed) : f \in {g \in StreamFeed : g.outcome = "ok"}}

\* The last snapshot the client received is v.
LastSent(v) == sent # <<>> /\ sent[Len(sent)] = v

\* A dictionary some of whose fields come from one accepted line and some
\* from another reading.
Torn(v) == v \notin WholeReadings

\* A reader holds a torn Reading: a snapshot the stream has sent, or its copy.
TornObserved ==
    \/ \E i \in 1..Len(sent) : Torn(sent[i])
    \/ last_data # EmptyDict /\ Torn(last_data)

\* C12: the stream pushes the Reading whenever it changes: once latest_data
\* has become v and stays v, the stream eventually emits a snapshot equal to
\* v, so the client's last snapshot does not stay different from the latest
\* Reading forever.
C12_StreamPushesChange ==
    \A v \in WholeReadings : []([](latest_data = v) => <>LastSent(v))

-----------------------------------------------------------------------------
(* jar_tracking_old.py: read_serial, fed the lines the live branch reads *)

\* len(parts) == 6
OldFields == 6

\* prev_state is not None and prev_state != state
OldTransition(prev, state) == prev # None /\ prev # Some(state)

\* The event of the reading being accepted (its number is the timestamp).
OldEvent(row, dist) ==
    [time |-> Len(old_hist) + 1, row |-> row, event |-> "Change detected",
     distance |-> Round1(dist)]

\* One pass of the loop on the stripped line ln: an empty or header line is
\* skipped, a line of other than 6 fields is passed over, a field among the
\* first four that does not parse raises into the outer handler; otherwise
\* the four values are stored as read and an event is appended for each row
\* whose state changed.
OldReadSerial(ln) ==
    LET parts == Split(ln, ",")
        d1 == ParseFloat(parts[1])
        s1 == ParseInt(parts[2])
        d2 == ParseFloat(parts[3])
        s2 == ParseInt(parts[4])
        e1 == IF OldTransition(old_prev_state1, s1.val)
              THEN <<OldEvent(1, d1.val)>> ELSE <<>>
        e2 == IF OldTransition(old_prev_state2, s2.val)
              THEN <<OldEvent(2, d2.val)>> ELSE <<>>
    IN  IF ln = <<>> \/ StartsWith(ln, HeaderPrefix) THEN UNCHANGED oldv
        ELSE IF Len(parts) # OldFields THEN UNCHANGED oldv
        ELSE IF ~(d1.ok /\ s1.ok /\ d2.ok /\ s2.ok) THEN UNCHANGED oldv
        ELSE /\ old_latest_data' =
                    [dist1 |-> Some(d1.val), state1 |-> Some(s1.val),
                     dist2 |-> Some(d2.val), state2 |-> Some(s2.val)]
             /\ old_event_log' = old_event_log \o e1 \o e2
             /\ old_prev_state1' = Some(s1.val)
             /\ old_prev_state2' = Some(s2.val)
             /\ old_hist' = Append(old_hist, <<s1.val, s2.val>>)

\* Lines of 4 and of 6 fields, raw states 0, 1 and 50, a threshold that is
\* not a number, a state that is not a number, and a short line.
OldLines ==
    {Join(<<TokD12, Tok0, TokD20, Tok0>>) \o Eol,
     Join(<<TokD12, Tok0, TokD20, Tok0, TokLower, TokUpper>>) \o Eol,
     Join(<<TokD45, Tok1, TokD20, Tok0, TokLower, TokUpper>>) \o Eol,
     Join(<<TokD45, Tok50, TokD20, Tok1, TokLower, TokUpper>>) \o Eol,
     JunkAt(5, 6), JunkAt(2, 6),
     Join(<<Tok1, Tok2>>) \o Eol}

OldFeed == Feed(OldLines)

\* Both variants read every line; the statements of the live branch follow.
NextOld ==
    \/ ReadError /\ UNCHANGED oldv
    \/ ReadDiscard(OldFeed) /\ OldReadSerial(line') /\ Len(old_hist') <= MaxOld
    \/ ReadAccept(OldFeed, MaxOld) /\ OldReadSerial(line') /\ Len(old_hist') <= MaxOld
    \/ Update
    \/ Check1
    \/ Alert1
    \/ Check2
    \/ Alert2
    \/ Backoff

SpecOld == InitLive /\ [][NextOld]_vars

\* The rows and reading numbers of the events of a log, in order.
RowsAndTimes(log) == [i \in 1..Len(log) |-> <<log[i].row, log[i].time>>]

\* C13: fed the same lines, the two variants accept the same lines, store
\* the same dist and state values in latest_data, and append events for the
\* same rows at the same readings in the same order (compared whenever the
\* live branch has finished the pass of the line read).
C13_VariantsAgree ==
    pc = "read" =>
        /\ Len(old_hist) = Len(hist)
        /\ old_latest_data.dist1 = latest_data.dist1
        /\ old_latest_data.state1 = latest_data.state1
        /\ old_latest_data.dist2 = latest_data.dist2
        /\ old_latest_data.state2 = latest_data.state2
        /\ RowsAndTimes(old_event_log) = RowsAndTimes(event_log)

-----------------------------------------------------------------------------
(* The jar records *)

\* The catalog rows that list jar j.
ListedIn(j) == {r \in DOMAIN row_jars : \E i \in 1..Len(row_jars[r]) : row_jars[r][i] = j}

\* An update_jar_status request whose jar id is not listed under its row.
NotListed(req) ==
    \/ req.jar_id = None \/ req.row = None
    \/ The(req.row) \notin ListedIn(The(req.jar_id))

-----------------------------------------------------------------------------
(* The live loop and every handler together *)

\* The lines and the request bodies of SpecAll.
AllLines ==
    {Join(<<TokD12, Tok0, TokD20, Tok0>>) \o Eol,
     Join(<<TokD12, Tok50, TokD20, Tok50>>) \o Eol,
     Join(<<Tok1, Tok2>>) \o Eol}

AllFeed == Feed(AllLines)

AllJars == {None, Some("R0244")}

AllFoundIns == {Some(1)}

AllStatuses == {Some("present")}

AllBodyRows == {Some(1), Some(2)}

NextAll ==
    \/ ReadError /\ UNCHANGED oldv
    \/ ReadDiscard(AllFeed) /\ UNCHANGED oldv
    \/ ReadAccept(AllFeed, MaxAll) /\ UNCHANGED oldv
    \/ Update
    \/ Check1
    \/ Alert1
    \/ Check2
    \/ Alert2
    \/ Backoff
    \/ \E row \in Rows : ClearAlert(row)
    \/ \E jar \in AllJars, found_in \in AllFoundIns : MarkWrongJar(jar, found_in)
    \/ \E jar_id \in AllJars, status \in AllStatuses, row \in AllBodyRows :
          UpdateJarStatus(jar_id, status, row)
    \/ \E row \in Rows : GetJarStatus(row)
    \/ GetLog
    \/ EventLogPage

SpecAll == InitLive /\ [][NextAll]_vars

\* a is an initial part of b
IsPrefix(a, b) == Len(a) <= Len(b) /\ SubSeq(b, 1, Len(a)) = a

\* C15: event_log and misplaced_jars are append-only and order-preserving:
\* across every step of the ingest loop and every call of a handler the old
\* contents of each list are a prefix of the new, so no entry is removed,
\* reordered or modified and no length decreases.
C15_AppendOnly ==
    [][/\ IsPrefix(event_log, event_log')
       /\ IsPrefix(misplaced_jars, misplaced_jars')
       /\ Len(event_log') >= Len(event_log)
       /\ Len(misplaced_jars') >= Len(misplaced_jars)]_vars

\* C15: both lists hold two entries in the order they were appended, the
\* same jar reported twice, and handlers have run since.
C15_Witness ==
    /\ Len(event_log) = 2 /\ event_log[1].row = 1 /\ event_log[2].row = 2
    /\ Len(misplaced_jars) = 2
    /\ misplaced_jars[1].jar = "R0244" /\ misplaced_jars[1].time = 0
    /\ misplaced_jars[2].jar = "R0244" /\ misplaced_jars[2].time = 2
    /\ resp.op = "event_log_page"
    /\ ~alerts[1]

\* C16 as stated: a reader running while read_serial stores an accepted
\* reading can observe a torn Reading; of the runs in which the stream keeps
\* reading: at some time a snapshot is torn.
C16_Original == <>TornObserved

\* C16 amended: no reader observes a torn Reading: latest_data always is,
\* and every snapshot the stream sends or copies is, the start-up value or
\* the six fields of one accepted line; what the stream sends and what it
\* then copies may be two different whole readings.
C16_NoTornReading ==
    /\ ~Torn(latest_data)
    /\ ~TornObserved

\* C16: the stream sent two whole readings that differ in every field, and
\* its copy is of a third reading, stored after the second was sent.
C16_Witness ==
    /\ Len(sent) = 2 /\ pc = "read" /\ stream_pc = "sleep"
    /\ sent[1].dist1 = Some(1225) /\ sent[1].state1 = Some(0) /\ sent[1].lower = Some(DefaultLower)
    /\ sent[2].dist1 = Some(4575) /\ sent[2].state1 = Some(1) /\ sent[2].lower = Some(2500)
    /\ last_data = latest_data /\ last_data # sent[2]
    /\ last_data.dist2 = Some(4575)

-----------------------------------------------------------------------------
(* A row going back to clear *)

PrevOf(r) == IF r = 1 THEN prev_state1 ELSE prev_state2

StateOf(r) == IF r = 1 THEN reading.state1 ELSE reading.state2

PassStatements == {"update", "check1", "alert1", "check2", "alert2"}

\* The loop is in the pass of an accepted reading that takes row r from 1 to 0.
Falling(r) == pc \in PassStatements /\ PrevOf(r) = Some(1) /\ StateOf(r) = Some(0)

\* The loop is at the test of row r, in a pass that takes the row from 0 to 1.
AtRise(r) ==
    /\ pc = (IF r = 1 THEN "check1" ELSE "check2")
    /\ PrevOf(r) = Some(0) /\ StateOf(r) = Some(1)

\* The loop is at the alert statement of row r.
AtAlert(r) == pc = (IF r = 1 THEN "alert1" ELSE "alert2")

\* What a reading with state 1 for r does once the remembered state is 0:
\* the test appends one row-r event, of this reading, and the next statement
\* sets alerts[r].
RiseFires(r) ==
    /\ (AtRise(r) /\ IngestStep) =>
          /\ event_log' = Append(event_log, event_log'[Len(event_log')])
          /\ event_log'[Len(event_log')].row = r
          /\ event_log'[Len(event_log')].time = Len(hist)
          /\ AtAlert(r)'
    /\ (AtAlert(r) /\ IngestStep) => alerts'[r]

-----------------------------------------------------------------------------
(* The Reading after an accepted line *)

\* Field i of the line of the pass, and the number of its fields.
FieldAt(i) == Split(line, ",")[i]

NumFields == Len(Split(line, ","))

\* The loop has stored the reading of `line` and is in the rest of its pass.
Stored == ~mock /\ pc \in {"check1", "alert1", "check2", "alert2"}

\* C18: after the loop accepts a live line, the six fields of latest_data
\* are those of that line alone: dist1, state1, dist2, state2 from fields
\* 1-4, lower from field 5 and upper from field 6, and 30.0 / 40.0 for a
\* threshold field that is absent, whatever an earlier line supplied.
C18_LatestOnly ==
    Stored =>
        /\ DOMAIN latest_data = {"dist1", "state1", "dist2", "state2", "lower", "upper"}
        /\ latest_data.dist1 = Some(ParseFloat(FieldAt(1)).val)
        /\ latest_data.state1 = Some(Bit(RawState(2)))
        /\ latest_data.dist2 = Some(ParseFloat(FieldAt(3)).val)
        /\ latest_data.state2 = Some(Bit(RawState(4)))
        /\ latest_data.lower =
              Some(IF NumFields >= 5 THEN ParseFloat(FieldAt(5)).val ELSE 3000)
        /\ latest_data.upper =
              Some(IF NumFields >= 6 THEN ParseFloat(FieldAt(6)).val ELSE 4000)

\* C18: a line of four fields stored after a line that supplied both
\* thresholds (the snapshot sent last still shows them): 30.0 and 40.0.
C18_Witness ==
    /\ Stored /\ NumFields = 4
    /\ sent # <<>>
    /\ sent[Len(sent)].lower = Some(2500) /\ sent[Len(sent)].upper = Some(3550)
    /\ latest_data.lower = Some(3000) /\ latest_data.upper = Some(4000)
    /\ latest_data.dist1 = Some(1225) /\ latest_data.state1 = Some(0)

-----------------------------------------------------------------------------
(* Jar status: update, then get *)

CatalogJars == UNION {JarsOf(r) : r \in DOMAIN row_jars}

\* The status get_jar_status is to report for jar j.
StatusOf(j) == IF j \in DOMAIN jar_status THEN jar_status[j].status ELSE "unchecked"

\* A step that is an update_jar_status call answered with success.
UpdateDone == resp'.op = "update_jar_status" /\ resp'.success

\* C19: get_jar_status(row) returns exactly the catalog jars of the row,
\* each with the status of its latest successful update_jar_status, and
\* "unchecked" for a jar never updated; a successful update sets the status
\* of its jar, replacing an earlier one, and leaves every other jar's
\* record as it was; nothing else changes a record.
C19_JarStatusRoundTrip ==
    /\ []((resp.op = "get_jar_status" /\ resp.success) =>
             /\ DOMAIN resp.jars = {j \in CatalogJars : resp.row \in ListedIn(j)}
             /\ \A j \in DOMAIN resp.jars : resp.jars[j].status = StatusOf(j))
    /\ [][IF UpdateDone
           THEN LET jar == The(resp'.req.jar_id)
                IN  /\ DOMAIN jar_status' = DOMAIN jar_status \cup {jar}
                    /\ jar_status'[jar].status = The(resp'.req.status)
                    /\ \A k \in DOMAIN jar_status \ {jar} : jar_status'[k] = jar_status[k]
           ELSE jar_status' = jar_status]_vars
    /\ [](Len(hist) = 0 /\ resp = NoResponse => DOMAIN jar_status = {})

\* C19: row 1 read back after its first jar was marked and a jar of row 2
\* was marked: the first jar as marked, the second unchecked.
C19_Witness ==
    /\ resp.op = "get_jar_status" /\ resp.row = 1 /\ resp.success
    /\ DOMAIN resp.jars = {"H004040", "H004041"}
    /\ resp.jars["H004040"].status = "missing"
    /\ resp.jars["H004041"].status = "unchecked"
    /\ DOMAIN jar_status = {"H004040", "R0244"}
    /\ jar_status["R0244"].status = "present"

-----------------------------------------------------------------------------
(* The mock generator *)

\* A step that is a tick of the mock branch.
Tick == mock /\ mock_counter' = mock_counter + 1

\* The distance of a tick lies on the side of the thresholds its state asks for.
DistFits(dist, state, lower, upper) ==
    IF state = Some(1) THEN The(dist) < The(lower) ELSE The(dist) > The(upper)

\* C20: in mock mode a row's synthetic state changes only on a tick whose
\* counter is a multiple of 20 and is unchanged on every other tick and
\* between ticks; on every tick the state produced is the row's synthetic
\* state, and the distance produced is below the lower threshold when that
\* state is 1 and above the upper threshold when it is 0.
C20_MockGenerator ==
    [][/\ (mock_state1' # mock_state1 \/ mock_state2' # mock_state2)
            => (Tick /\ mock_counter' % 20 = 0)
       /\ Tick =>
            /\ reading'.state1 = Some(mock_state1') /\ reading'.state2 = Some(mock_state2')
            /\ mock_state1' \in {0, 1} /\ mock_state2' \in {0, 1}
            /\ DistFits(reading'.dist1, reading'.state1, reading'.lower, reading'.upper)
            /\ DistFits(reading'.dist2, reading'.state2, reading'.lower, reading'.upper)]_vars

\* C20: row 1 toggled at tick 20 and row 2 did not; row 2 toggled at tick
\* 40 and row 1 did not; the distances of tick 40 lie below the lower
\* threshold.
C20_Witness ==
    /\ mock /\ mock_counter = 40 /\ pc = "update"
    /\ hist[19] = <<0, 0>> /\ hist[20] = <<1, 0>>
    /\ hist[39] = <<1, 0>> /\ hist[40] = <<1, 1>>
    /\ The(reading.dist1) < DefaultLower /\ The(reading.dist2) < DefaultLower

-----------------------------------------------------------------------------
(* What the stream emits *)

\* A step in which the stream yields a snapshot.
Emits == Len(sent') = Len(sent) + 1

\* C21: the stream emits a snapshot only when the Reading has changed since
\* the last emission: every emission is the Reading current at that moment,
\* the first one included, and in every interleaving with the ingest loop
\* no emitted snapshot equals the one emitted before it.
C21_EmitsOnlyChanges ==
    [][Emits =>
          /\ sent' = Append(sent, latest_data)
          /\ sent # <<>> => sent'[Len(sent')] # sent[Len(sent)]]_vars

-----------------------------------------------------------------------------
(* Dropped lines and failed reads *)

\* A step that drops a line or fails a read.
Skipping ==
    /\ pc = "read" /\ hist' = hist
    /\ line' # line \/ pc' = "backoff" \/ skipped' # skipped

\* The step from the back-off of a failed read to the next read.
Resuming == pc = "backoff" /\ pc' = "read"

\* The last accepted reading took row r from 0 to 1, and between it and the
\* accepted reading before it a line was dropped or a read failed.
RoseOverGap(r) ==
    /\ skipped.closed /\ Len(hist) >= 2
    /\ hist[Len(hist) - 1][r] = 0 /\ hist[Len(hist)][r] = 1

\* The events of row r appended at the last accepted reading.
EventsOfLast(r) ==
    {i \in 1..Len(event_log) : event_log[i].row = r /\ event_log[i].time = Len(hist)}

\* C22: a dropped line or a failed read changes neither the remembered
\* states nor the log nor the alerts, so the edges are those of the accepted
\* readings: when row r had state 0 in an accepted reading and has state 1 in
\* the next accepted one, with dropped lines or failed reads in between, the
\* loop still remembers 0 when it tests the row, the test appends exactly
\* one row-r event and the next statement sets alerts[r].
C22_EdgesOverAccepted ==
    [][\A r \in Rows :
          /\ (Skipping \/ Resuming) =>
                /\ PrevOf(r)' = PrevOf(r)
                /\ event_log' = event_log
                /\ alerts' = alerts
          /\ RoseOverGap(r) =>
                IF Tested(r) < Len(hist)
                THEN PrevOf(r) = Some(0) /\ StateOf(r) = Some(1) /\ EventsOfLast(r) = {}
                ELSE Cardinality(EventsOfLast(r)) = 1
          /\ RiseFires(r)]_vars

\* C22: row 1 read 0, then a line was dropped or a read failed, then row 1
\* read 1: the pass is over, with one row-1 event and the alert set.
C22_Witness ==
    /\ ~mock /\ pc = "read" /\ skipped.closed
    /\ hist = <<(<<0, 0>>), (<<1, 0>>)>>
    /\ RowEvents(1) = 1 /\ EventTimes(1) = {2}
    /\ alerts[1]

-----------------------------------------------------------------------------
(* An alert has its event *)

\* C23: at every statement of read_serial and whatever the handlers did in
\* between, a row whose alert is set has at least one event in the log: the
\* loop appends the event before it sets the alert, and nothing removes
\* events.
C23_AlertHasEvent == \A r \in Rows : alerts[r] => RowEvents(r) >= 1

\* C23: the loop is between the append of the row-2 event and the statement
\* that sets alerts[2]; row 1 has its event and its alert, and a handler has
\* answered meanwhile.
C23_Witness ==
    /\ pc = "alert2" /\ resp # NoResponse
    /\ alerts[1] /\ RowEvents(1) = 1
    /\ ~alerts[2] /\ RowEvents(2) = 1

-----------------------------------------------------------------------------
(* Both rows rising in one reading *)

\* The last accepted reading took both rows from 0 to 1.
BothRose ==
    /\ Len(hist) >= 2
    /\ hist[Len(hist) - 1] = <<0, 0>> /\ hist[Len(hist)] = <<1, 1>>

\* The places in the log of the events appended at the last accepted reading.
EventsAtLast == {i \in 1..Len(event_log) : event_log[i].time = Len(hist)}

\* The event the reading held by latest_data gives row r.
EventOfStored(r) ==
    [time |-> Len(hist), row |-> r, event |-> "Needs checking",
     distance |-> Round1(The(IF r = 1 THEN latest_data.dist1 ELSE latest_data.dist2))]

\* C24: when one accepted reading takes both rows from 0 to 1, the pass
\* appends exactly two events, the row-1 event and then the row-2 event, each
\* with the distance of its own row in that reading; every append happens
\* with the reading already stored in latest_data.
C24_BothRowsRise ==
    [][/\ event_log' # event_log =>
             /\ latest_data = reading
             /\ latest_data' = latest_data
       /\ (BothRose /\ Tested(2) = Len(hist)) =>
             LET k == Len(event_log)
             IN  /\ EventsAtLast = {k - 1, k}
                 /\ k >= 2
                 /\ event_log[k - 1] = EventOfStored(1)
                 /\ event_log[k] = EventOfStored(2)]_vars

\* C24: a reading of the serial line took both rows from 0 to 1 and its
\* pass is over: the log ends with the row-1 event and the row-2 event, of
\* different distances.
C24_Witness ==
    /\ ~mock /\ pc = "read" /\ BothRose
    /\ Len(event_log) >= 2
    /\ event_log[Len(event_log) - 1].row = 1
    /\ event_log[Len(event_log)].row = 2
    /\ event_log[Len(event_log) - 1].distance # event_log[Len(event_log)].distance

-----------------------------------------------------------------------------
(* What the handlers leave alone *)

\* The response of a jar handler that refused the call.
Refused(r) == r.op \in {"update_jar_status", "mark_wrong_jar"} /\ ~r.success

\* C25: a step of an HTTP handler changes neither latest_data nor event_log
\* nor the states the ingest loop remembers; an update_jar_status or
\* mark_wrong_jar call that answers with a failure leaves jar_status and
\* misplaced_jars as they were; and clear_alert(row) changes the alert of no
\* row but its own.
C25_HandlersFrame ==
    [][~IngestStep =>
          /\ latest_data' = latest_data
          /\ event_log' = event_log
          /\ prev_state1' = prev_state1
          /\ prev_state2' = prev_state2
          /\ Refused(resp') =>
                /\ jar_status' = jar_status
                /\ misplaced_jars' = misplaced_jars
          /\ resp'.op = "clear_alert" =>
                \A r \in DOMAIN alerts' \ {resp'.row} :
                    r \in DOMAIN alerts /\ alerts'[r] = alerts[r]]_vars

\* C25: both alerts were raised and a record and a misplaced entry stored;
\* then clear_alert(1) lowered alerts[1] alone, and a refused
\* update_jar_status call is the latest answer; the log and the reading are
\* those the loop left.
C25_Witness ==
    /\ Refused(resp) /\ resp.op = "update_jar_status"
    /\ ~alerts[1] /\ alerts[2]
    /\ RowEvents(1) = 1 /\ RowEvents(2) = 1
    /\ jar_status # <<>> /\ misplaced_jars # <<>>
    /\ pc = "read" /\ latest_data = reading /\ reading.state1 = Some(1)

====
